---- MODULE Spec2Model ----
(***************************************************************************)
(* Model of the WatchDog of node-opcua-utils (source/watchdog.ts).         *)
(*                                                                         *)
(* The registry keeps a table of entries keyed by a running counter,       *)
(* augments each subscriber with _watchDog / _watchDogData / keepAlive,    *)
(* and sweeps the table from a setInterval callback.  The sweep calls out  *)
(* to "timeout" listeners and to watchdogReset(), which may call back into *)
(* the registry, so a pass is modelled step by step: pc records where the  *)
(* pass stands, and the public operations are enabled both between passes  *)
(* and from inside a callback.                                             *)
(*                                                                         *)
(* Time is the value of getCurrentSystemTick() in milliseconds; it         *)
(* advances in steps of half a sweep period and a pass takes no time.      *)
(* The optional onClientSeen hook is taken to return normally and not to   *)
(* touch the registry.                                                     *)
(***************************************************************************)
EXTENDS Integers, Sequences, FiniteSets

\* ------------------------------------------------------------------ bounds
MaxTicks == 4       \* clock steps taken
MaxCounter == 2     \* registrations performed
MaxCalls == 2       \* registry calls made by one callback invocation

\* --------------------------------------------------------- program constants
DefaultTimeout == 1000   \* timeout || 1000
SweepPeriod == 1000      \* setInterval(..., 1000)

TickStep == SweepPeriod \div 2
MaxClock == MaxTicks * TickStep

\* How far the clock is followed once the callers are quiet: an entry stamped at
\* MaxClock with the longest timeout is over it at the second pass after that.
QuietClock == MaxClock + DefaultTimeout + SweepPeriod

\* The subscriber objects: two, so that a pass can find two entries expired.
Subs == {"A", "B"}
NoSub == "none"
NoKey == 0
NoFire == 0

\* The values a caller passes as timeout.
Num(v) == [kind |-> "number", v |-> v]
\* The number Infinity, which _.isNumber accepts: above every elapsed time.
Infinity == QuietClock + 1

Timeouts ==
    { Num(0), Num(0 - TickStep), Num(TickStep), Num(Infinity),
      [kind |-> "NaN", v |-> 0], [kind |-> "string", v |-> 0] }

VARIABLES
    watchdogDataMap,     \* _watchdogDataMap: key -> entry
    counter,             \* _counter
    currentTime,         \* _currentTime
    timer,               \* _timer !== null
    nextFire,            \* the tick at which the interval fires next
    subscriber,          \* the three fields the registry puts on a subscriber
    clock,               \* what getCurrentSystemTick() returns now
    quiet,               \* the callers have stopped registering and signalling
    pc,                  \* position of the sweep pass
    expiredSubscribers,  \* the batch of the pass
    idx,                 \* position of forEach in the batch
    calls,               \* registry calls made by the running callback
    timeoutEvents,       \* "timeout" notifications emitted by the latest pass
    hist,                \* per subscriber: fate of its latest registration
    last                 \* the operation performed last and its outcome

vars ==
    << watchdogDataMap, counter, currentTime, timer, nextFire, subscriber, clock,
       pc, expiredSubscribers, idx, calls, timeoutEvents, hist, last, quiet >>

\* ----------------------------------------------------------------- helpers
Unbound == [watchDog |-> FALSE, watchDogData |-> NoKey, keepAlive |-> FALSE]

subscriberCount == Cardinality(DOMAIN watchdogDataMap)

getCurrentSystemTick == clock

Op(o, s, r) == [op |-> o, sub |-> s, res |-> r]

RECURSIVE InKeyOrder(_)
InKeyOrder(K) ==
    IF K = {} THEN << >>
    ELSE LET m == CHOOSE x \in K : \A y \in K : x <= y
         IN  << m >> \o InKeyOrder(K \ {m})

InCallback == pc \in {"emit", "reset"}

\* A public operation runs between passes, or from a running callback.
MayCall == pc = "idle" \/ (InCallback /\ calls < MaxCalls)

Called == calls' = IF pc = "idle" THEN calls ELSE calls + 1

\* hasExpired with the boundary included.
hasExpired_AtBoundary(watchDogData, now) ==
    LET elapsedTime == now - watchDogData.lastSeen
    IN  elapsedTime >= watchDogData.timeout

\* hasExpired with the subtraction the wrong way round.
hasExpired_Reversed(watchDogData, now) ==
    LET elapsedTime == watchDogData.lastSeen - now
    IN  elapsedTime > watchDogData.timeout

hasExpired(watchDogData, now) ==
    LET elapsedTime == now - watchDogData.lastSeen
    IN  elapsedTime > watchDogData.timeout

\* ------------------------------------------------------------ addSubscriber
\* timeout = timeout || 1000
orDefault(t) ==
    IF t.kind = "NaN" \/ (t.kind = "number" /\ t.v = 0)
    THEN Num(DefaultTimeout)
    ELSE t

\* addSubscriber without assert(!_.isFunction(subscriber.keepAlive)).
addRejected_NoBoundCheck(s, t) == orDefault(t).kind # "number"

\* The assertions that throw before addSubscriber has changed anything but
\* _currentTime: the timeout is no number, or keepAlive is already bound.
addRejected(s, t) ==
    orDefault(t).kind # "number" \/ subscriber[s].keepAlive

newEntry(s, t) ==
    [ key |-> counter + 1, lastSeen |-> clock, subscriber |-> s,
      timeout |-> orDefault(t).v, visitCount |-> 0 ]

\* A table that numbers the new entry by the size of the table, not by _counter.
mapWith_ReusesKey(s, t) ==
    [ k \in DOMAIN watchdogDataMap \cup {subscriberCount + 1} |->
        IF k = subscriberCount + 1
        THEN [ newEntry(s, t) EXCEPT !.key = subscriberCount + 1 ]
        ELSE watchdogDataMap[k] ]

mapWith(s, t) ==
    [ k \in DOMAIN watchdogDataMap \cup {counter + 1} |->
        IF k = counter + 1 THEN newEntry(s, t) ELSE watchdogDataMap[k] ]

addOutcome(s, t) ==
    IF addRejected(s, t) THEN "error"
    ELSE LET first == Cardinality(DOMAIN mapWith(s, t)) = 1
         IN  IF first /\ timer THEN "error"          \* assert(this._timer === null)
             ELSE IF ~first /\ ~timer THEN "error"   \* assert(this._timer !== null)
             ELSE "ok"

addSubscriber(s, t) ==
    /\ currentTime' = getCurrentSystemTick
    /\ IF addRejected(s, t)
       THEN UNCHANGED << counter, watchdogDataMap, subscriber, timer, nextFire >>
       ELSE LET first == Cardinality(DOMAIN mapWith(s, t)) = 1
            IN  /\ counter' = counter + 1
                /\ watchdogDataMap' = mapWith(s, t)
                /\ subscriber' =
                     [ subscriber EXCEPT
                         ![s] = [ watchDog |-> TRUE, watchDogData |-> counter + 1,
                                  keepAlive |-> TRUE ] ]
                \* start timer when the first subscriber comes in
                /\ timer' = (timer \/ first)
                /\ nextFire' = IF first /\ ~timer THEN clock + SweepPeriod ELSE nextFire

\* ---------------------------------------------------------- removeSubscriber
removeOutcome(s) ==
    IF ~subscriber[s].watchDog THEN "noop"               \* already removed
    ELSE IF subscriber[s].watchDogData = NoKey THEN "error"
    ELSE IF ~subscriber[s].keepAlive THEN "error"
    ELSE IF subscriber[s].watchDogData \notin DOMAIN watchdogDataMap THEN "error"
    ELSE IF DOMAIN watchdogDataMap = {subscriber[s].watchDogData} /\ ~timer
         THEN "error"                                    \* _stop_timer's assert
    ELSE "removed"

removesEntry(s) ==
    /\ subscriber[s].watchDog
    /\ subscriber[s].watchDogData # NoKey
    /\ subscriber[s].keepAlive
    /\ subscriber[s].watchDogData \in DOMAIN watchdogDataMap

\* removeSubscriber that leaves the interval running.
removeSubscriber_LeavesTimer(s) ==
    IF ~removesEntry(s)
    THEN UNCHANGED << watchdogDataMap, subscriber, timer, nextFire >>
    ELSE LET rest == DOMAIN watchdogDataMap \ {subscriber[s].watchDogData}
         IN  /\ watchdogDataMap' = [ k \in rest |-> watchdogDataMap[k] ]
             /\ subscriber' = [ subscriber EXCEPT ![s] = Unbound ]
             /\ UNCHANGED << timer, nextFire >>

\* removeSubscriber without delete subscriber.keepAlive.
removeSubscriber_KeepsKeepAlive(s) ==
    IF ~removesEntry(s)
    THEN UNCHANGED << watchdogDataMap, subscriber, timer, nextFire >>
    ELSE LET rest == DOMAIN watchdogDataMap \ {subscriber[s].watchDogData}
         IN  /\ watchdogDataMap' = [ k \in rest |-> watchdogDataMap[k] ]
             /\ subscriber' = [ subscriber EXCEPT ![s].watchDog = FALSE,
                                                  ![s].watchDogData = NoKey ]
             /\ timer' = IF rest = {} THEN FALSE ELSE timer
             /\ nextFire' = IF rest = {} THEN NoFire ELSE nextFire

\* removeSubscriber without delete this._watchdogDataMap[key].
removeSubscriber_KeepsEntry(s) ==
    IF ~removesEntry(s)
    THEN UNCHANGED << watchdogDataMap, subscriber, timer, nextFire >>
    ELSE /\ subscriber' = [ subscriber EXCEPT ![s] = Unbound ]
         /\ UNCHANGED << watchdogDataMap, timer, nextFire >>

removeSubscriber(s) ==
    IF ~removesEntry(s)
    THEN UNCHANGED << watchdogDataMap, subscriber, timer, nextFire >>
    ELSE LET rest == DOMAIN watchdogDataMap \ {subscriber[s].watchDogData}
         IN  /\ watchdogDataMap' = [ k \in rest |-> watchdogDataMap[k] ]
             /\ subscriber' = [ subscriber EXCEPT ![s] = Unbound ]
             \* delete timer when the last subscriber comes out
             /\ timer' = IF rest = {} THEN FALSE ELSE timer
             /\ nextFire' = IF rest = {} THEN NoFire ELSE nextFire

\* -------------------------------------------------------------- keepAliveFunc
\* keepAliveFunc without its checks of _watchDog and _watchDogData.
keepAliveOutcome_NoCheck(s) == "ok"

keepAliveOutcome(s) ==
    IF ~subscriber[s].watchDog \/ subscriber[s].watchDogData = NoKey
    THEN "error"
    ELSE "ok"

\* keepAlive that stamps every entry of the table.
keepAliveFunc_AllEntries(s) ==
    IF keepAliveOutcome(s) = "ok" /\ subscriber[s].watchDogData \in DOMAIN watchdogDataMap
    THEN watchdogDataMap' =
           [ k \in DOMAIN watchdogDataMap |->
               [ watchdogDataMap[k] EXCEPT !.lastSeen = getCurrentSystemTick ] ]
    ELSE UNCHANGED watchdogDataMap

keepAliveFunc(s) ==
    IF keepAliveOutcome(s) = "ok" /\ subscriber[s].watchDogData \in DOMAIN watchdogDataMap
    THEN watchdogDataMap' =
           [ watchdogDataMap EXCEPT
               ![subscriber[s].watchDogData].lastSeen = getCurrentSystemTick ]
    ELSE UNCHANGED watchdogDataMap

\* ------------------------------------------------------------------ shutdown
\* shutdown without its assertion.
shutdownOutcome_NoAssert == "ok"

shutdownOutcome ==
    IF ~timer /\ Cardinality(DOMAIN watchdogDataMap) = 0 THEN "ok" ELSE "error"

\* -------------------------------------------------------------------- state
Init ==
    /\ watchdogDataMap = [ k \in {} |-> 0 ]
    /\ counter = 0
    /\ clock = 0
    /\ currentTime = 0
    /\ timer = FALSE
    /\ nextFire = NoFire
    /\ subscriber = [ s \in Subs |-> Unbound ]
    /\ pc = "idle"
    /\ expiredSubscribers = << >>
    /\ idx = 0
    /\ calls = 0
    /\ timeoutEvents = << >>
    /\ hist = [ s \in Subs |-> [ status |-> "never", late |-> FALSE, resets |-> 0 ] ]
    /\ last = Op("init", NoSub, "ok")
    /\ quiet = FALSE

\* The entry of subscriber s has been silent for its whole timeout at tick now.
silentFor(s, now) ==
    /\ subscriber[s].watchDogData \in DOMAIN watchdogDataMap
    /\ now - watchdogDataMap[subscriber[s].watchDogData].lastSeen
         >= watchdogDataMap[subscriber[s].watchDogData].timeout

\* The clock advances.  The interval fires once per period, so the clock
\* does not pass the tick at which a pass is due.
Tick ==
    /\ pc = "idle"
    /\ clock + TickStep <= (IF quiet THEN QuietClock ELSE MaxClock)
    /\ timer => clock + TickStep <= nextFire
    /\ clock' = clock + TickStep
    /\ hist' = [ s \in Subs |->
                   [ hist[s] EXCEPT !.late = @ \/ silentFor(s, clock + TickStep) ] ]
    /\ last' = Op("tick", NoSub, "ok")
    /\ UNCHANGED << quiet, watchdogDataMap, counter, currentTime, timer, nextFire, subscriber,
                    pc, expiredSubscribers, idx, calls, timeoutEvents >>

AddSubscriber(s, t) ==
    /\ ~quiet
    /\ MayCall
    /\ addRejected(s, t) \/ counter < MaxCounter
    /\ addSubscriber(s, t)
    /\ Called
    /\ hist' = IF addRejected(s, t) THEN hist
               ELSE [ hist EXCEPT ![s] = [ status |-> "active",
                                           late |-> 0 >= orDefault(t).v,
                                           resets |-> 0 ] ]
    /\ last' = Op("addSubscriber", s, addOutcome(s, t))
    /\ UNCHANGED << quiet, clock, pc, expiredSubscribers, idx, timeoutEvents >>

RemoveSubscriber(s) ==
    /\ MayCall
    /\ removeSubscriber(s)
    /\ Called
    /\ hist' = IF removesEntry(s) THEN [ hist EXCEPT ![s].status = "removed" ] ELSE hist
    /\ last' = Op("removeSubscriber", s, removeOutcome(s))
    /\ UNCHANGED << quiet, counter, currentTime, clock, pc, expiredSubscribers, idx,
                    timeoutEvents >>

\* The caller invokes the keepAlive function it got from a registration of s,
\* which it may have kept beyond the removal of s.
KeepAlive(s) ==
    /\ ~quiet
    /\ MayCall
    /\ hist[s].status # "never"
    /\ keepAliveFunc(s)
    /\ Called
    /\ last' = Op("keepAlive", s, keepAliveOutcome(s))
    /\ UNCHANGED << quiet, counter, currentTime, timer, nextFire, subscriber, clock, pc,
                    expiredSubscribers, idx, timeoutEvents, hist >>

Shutdown ==
    /\ MayCall
    /\ Called
    /\ last' = Op("shutdown", NoSub, shutdownOutcome)
    /\ UNCHANGED << quiet, watchdogDataMap, counter, currentTime, timer, nextFire, subscriber,
                    clock, pc, expiredSubscribers, idx, timeoutEvents, hist >>

\* ------------------------------------------------------------ _visit_subscriber
expiredKeys(now) ==
    { k \in DOMAIN watchdogDataMap : hasExpired(watchdogDataMap[k], now) }

\* A batch that holds the first expired entry only.
batchOf_FirstOnly(K) ==
    [ i \in 1..(IF K = {} THEN 0 ELSE 1) |->
        [ key |-> InKeyOrder(K)[i],
          subscriber |-> watchdogDataMap[InKeyOrder(K)[i]].subscriber ] ]

batchOf(K) ==
    [ i \in 1..Cardinality(K) |->
        [ key |-> InKeyOrder(K)[i],
          subscriber |-> watchdogDataMap[InKeyOrder(K)[i]].subscriber ] ]

\* A pass that emits one "timeout" for each expired entry.
VisitSubscriber_EmitsPerEntry ==
    /\ pc = "idle"
    /\ timer
    /\ clock = nextFire
    /\ currentTime' = getCurrentSystemTick
    /\ watchdogDataMap' =
         [ k \in DOMAIN watchdogDataMap |->
             [ watchdogDataMap[k] EXCEPT !.visitCount = @ + 1 ] ]
    /\ expiredSubscribers' = batchOf(expiredKeys(getCurrentSystemTick))
    /\ nextFire' = clock + SweepPeriod
    /\ IF expiredKeys(getCurrentSystemTick) # {}
       THEN /\ timeoutEvents' =
                 [ i \in 1..Cardinality(expiredKeys(getCurrentSystemTick)) |->
                     << batchOf(expiredKeys(getCurrentSystemTick))[i] >> ]
            /\ pc' = "emit"
       ELSE /\ timeoutEvents' = << >>
            /\ pc' = "idle"
    /\ idx' = 0
    /\ calls' = 0
    /\ last' = Op("visit", NoSub, "ok")
    /\ UNCHANGED << quiet, counter, timer, subscriber, clock, hist >>

\* A pass that counts the visit of the surviving entries only.
VisitSubscriber_CountsSurvivors ==
    /\ pc = "idle"
    /\ timer
    /\ clock = nextFire
    /\ currentTime' = getCurrentSystemTick
    /\ watchdogDataMap' =
         [ k \in DOMAIN watchdogDataMap |->
             [ watchdogDataMap[k] EXCEPT
                 !.visitCount = IF k \in expiredKeys(getCurrentSystemTick)
                                THEN @ ELSE @ + 1 ] ]
    /\ expiredSubscribers' = batchOf(expiredKeys(getCurrentSystemTick))
    /\ nextFire' = clock + SweepPeriod
    /\ IF expiredKeys(getCurrentSystemTick) # {}
       THEN /\ timeoutEvents' = << batchOf(expiredKeys(getCurrentSystemTick)) >>
            /\ pc' = "emit"
       ELSE /\ timeoutEvents' = << >>
            /\ pc' = "idle"
    /\ idx' = 0
    /\ calls' = 0
    /\ last' = Op("visit", NoSub, "ok")
    /\ UNCHANGED << quiet, counter, timer, subscriber, clock, hist >>

\* The interval fires: the pass captures the tick, visits every entry,
\* collects the expired ones and emits "timeout" when there are any.
VisitSubscriber ==
    /\ pc = "idle"
    /\ timer
    /\ clock = nextFire
    /\ currentTime' = getCurrentSystemTick
    /\ watchdogDataMap' =
         [ k \in DOMAIN watchdogDataMap |->
             [ watchdogDataMap[k] EXCEPT !.visitCount = @ + 1 ] ]
    /\ expiredSubscribers' = batchOf(expiredKeys(getCurrentSystemTick))
    /\ nextFire' = clock + SweepPeriod
    /\ IF expiredKeys(getCurrentSystemTick) # {}
       THEN /\ timeoutEvents' = << batchOf(expiredKeys(getCurrentSystemTick)) >>
            /\ pc' = "emit"
       ELSE /\ timeoutEvents' = << >>
            /\ pc' = "idle"
    /\ idx' = 0
    /\ calls' = 0
    /\ last' = Op("visit", NoSub, "ok")
    /\ UNCHANGED << quiet, counter, timer, subscriber, clock, hist >>

\* emit("timeout", ...) returns: forEach starts.
EmitReturn ==
    /\ pc = "emit"
    /\ pc' = "forEach"
    /\ idx' = 1
    /\ calls' = 0
    /\ last' = Op("emitReturn", NoSub, "ok")
    /\ UNCHANGED << quiet, watchdogDataMap, counter, currentTime, timer, nextFire, subscriber,
                    clock, expiredSubscribers, timeoutEvents, hist >>

\* A turn of forEach that enters watchdogReset() with the entry still in place.
Evict_ResetFirst ==
    /\ pc = "forEach"
    /\ LET s == expiredSubscribers[idx].subscriber
       IN  /\ hist' = [ hist EXCEPT ![s].resets = @ + 1 ]
           /\ last' = Op("evict", s, "noop")
    /\ pc' = "reset"
    /\ calls' = 0
    /\ UNCHANGED << quiet, watchdogDataMap, subscriber, timer, nextFire, counter, currentTime,
                    clock, expiredSubscribers, idx, timeoutEvents >>

\* One turn of forEach: removeSubscriber(watchDogData.subscriber), then
\* watchDogData.subscriber.watchdogReset() is entered.
Evict ==
    /\ pc = "forEach"
    /\ LET s == expiredSubscribers[idx].subscriber
       IN  /\ removeSubscriber(s)
           /\ hist' = [ hist EXCEPT
                          ![s].status = IF removesEntry(s) THEN "evicted" ELSE @,
                          ![s].resets = @ + 1 ]
           /\ last' = Op("evict", s, removeOutcome(s))
    /\ pc' = "reset"
    /\ calls' = 0
    /\ UNCHANGED << quiet, counter, currentTime, clock, expiredSubscribers, idx,
                    timeoutEvents >>

\* watchdogReset() returns: forEach goes on, or the pass is over.
ResetReturn ==
    /\ pc = "reset"
    /\ IF idx < Len(expiredSubscribers)
       THEN /\ pc' = "forEach"
            /\ idx' = idx + 1
            /\ UNCHANGED << expiredSubscribers, timeoutEvents >>
       ELSE /\ pc' = "idle"
            /\ idx' = 0
            /\ expiredSubscribers' = << >>
            /\ timeoutEvents' = << >>
    /\ calls' = 0
    /\ last' = Op("resetReturn", NoSub, "ok")
    /\ UNCHANGED << quiet, watchdogDataMap, counter, currentTime, timer, nextFire, subscriber,
                    clock, hist >>

\* A listener or watchdogReset() throws: nothing in _visit_subscriber catches
\* it, so the pass ends where it stands.
CallbackThrow ==
    /\ ~quiet
    /\ InCallback
    /\ pc' = "idle"
    /\ idx' = 0
    /\ calls' = 0
    /\ expiredSubscribers' = << >>
    /\ timeoutEvents' = << >>
    /\ last' = Op("throw", NoSub, "error")
    /\ UNCHANGED << quiet, watchdogDataMap, counter, currentTime, timer, nextFire, subscriber,
                    clock, hist >>

Next ==
    \/ Tick
    \/ \E s \in Subs, t \in Timeouts : AddSubscriber(s, t)
    \/ \E s \in Subs : RemoveSubscriber(s)
    \/ \E s \in Subs : KeepAlive(s)
    \/ Shutdown
    \/ VisitSubscriber
    \/ EmitReturn
    \/ Evict
    \/ ResetReturn
    \/ CallbackThrow

Spec == Init /\ [][Next]_vars

\* ------------------------------------------------------------- quiescence
\* From here on nobody calls addSubscriber or keepAlive, and no listener or
\* watchdogReset() throws; removeSubscriber and shutdown may still be called.
Quiesce ==
    /\ ~quiet
    /\ quiet' = TRUE
    /\ last' = Op("quiesce", NoSub, "ok")
    /\ UNCHANGED << watchdogDataMap, counter, currentTime, timer, nextFire, subscriber,
                    clock, pc, expiredSubscribers, idx, calls, timeoutEvents, hist >>

NextQuiet ==
    \/ Next
    \/ Quiesce

\* The clock advances, setInterval keeps firing the pass, and the callbacks of
\* a pass return.
SpecQuiet ==
    /\ Init
    /\ [][NextQuiet]_vars
    /\ WF_vars(Tick)
    /\ WF_vars(VisitSubscriber)
    /\ WF_vars(EmitReturn)
    /\ WF_vars(Evict)
    /\ WF_vars(ResetReturn)

\* ------------------------------------------------------------------- claims
keysOf(s) == { k \in DOMAIN watchdogDataMap : watchdogDataMap[k].subscriber = s }

batchKeys == { expiredSubscribers[i].key : i \in 1..Len(expiredSubscribers) }

\* C1: in every state between two operations of the registry, also those a
\* listener or watchdogReset() sees from inside a pass, the sweep timer is
\* active if and only if subscriberCount > 0.
C1_TimerIffSubscribers == timer <=> (subscriberCount > 0)

\* The last subscriber has just been evicted by a pass and the timer is stopped.
C1_Witness ==
    /\ last.op = "evict"
    /\ last.res = "removed"
    /\ subscriberCount = 0
    /\ ~timer

\* C2: a subscriber that is neither kept alive nor removed is evicted no later
\* than its timeout plus one sweep period after its last recorded activity, and
\* an evicted subscriber has had watchdogReset() invoked exactly once for that
\* registration.  Between passes no entry is older than that.
C2_EvictedWithinTimeoutPlusPeriod ==
    /\ pc = "idle" =>
         \A k \in DOMAIN watchdogDataMap :
            clock - watchdogDataMap[k].lastSeen
              <= watchdogDataMap[k].timeout + SweepPeriod
    /\ \A s \in Subs : hist[s].status = "evicted" => hist[s].resets = 1

\* C3: a registration whose silence has never reached its timeout is never
\* evicted by a pass and never has watchdogReset() invoked.
C3_TimelyNeverEvicted ==
    \A s \in Subs :
        (hist[s].status # "never" /\ ~hist[s].late) =>
            (hist[s].status # "evicted" /\ hist[s].resets = 0)

\* The notification of a pass is being delivered: emit has been entered and no
\* listener has called the registry yet.
Delivered == pc = "emit" /\ last.op = "visit"

\* C4 as stated: when the "timeout" notification carrying two expired entries
\* is delivered, both entries have already left the table.
C4_RemovedWhenNotified ==
    (Delivered /\ Len(expiredSubscribers) >= 2) =>
        /\ Len(timeoutEvents) = 1
        /\ timeoutEvents[1] = expiredSubscribers
        /\ \A k \in batchKeys : k \notin DOMAIN watchdogDataMap

\* C4 (amended): the entries that expire in one pass are all carried by the one
\* "timeout" notification of the pass, and when it is delivered they are all
\* still in the table: the pass removes them after emit has returned.
C4_OneNotificationBeforeRemoval ==
    Delivered =>
        /\ Len(timeoutEvents) = 1
        /\ timeoutEvents[1] = expiredSubscribers
        /\ batchKeys = { k \in DOMAIN watchdogDataMap :
                           currentTime - watchdogDataMap[k].lastSeen
                             > watchdogDataMap[k].timeout }
        /\ Cardinality(batchKeys) = Len(expiredSubscribers)
        /\ subscriberCount >= Len(expiredSubscribers)

\* Two entries expired in the same pass and their notification is delivered.
C4_Witness == Delivered /\ Len(expiredSubscribers) = 2

\* C5: a pass classifies an entry as expired if and only if the captured tick
\* minus lastSeen is strictly greater than the timeout, and it removes no entry
\* that it visited and did not classify as expired.
C5_Classified ==
    last.op = "visit" =>
        /\ currentTime = clock
        /\ \A k \in DOMAIN watchdogDataMap :
              k \in batchKeys <=>
                 currentTime - watchdogDataMap[k].lastSeen > watchdogDataMap[k].timeout

C5_OnlyClassifiedEvicted ==
    last'.op = "evict" =>
        \A k \in DOMAIN watchdogDataMap \ DOMAIN watchdogDataMap' :
            k \in batchKeys \/ watchdogDataMap[k].visitCount = 0

C6_Step ==
    last'.op = "removeSubscriber" =>
        IF keysOf(last'.sub) = {}
        THEN /\ last'.res = "noop"
             /\ UNCHANGED << watchdogDataMap, timer, counter, subscriber, hist >>
        ELSE /\ last'.res = "removed"
             /\ watchdogDataMap' =
                  [ k \in DOMAIN watchdogDataMap \ keysOf(last'.sub) |->
                      watchdogDataMap[k] ]
             /\ subscriber'[last'.sub] = Unbound
             /\ \A s \in Subs \ {last'.sub} : subscriber'[s] = subscriber[s]
             /\ counter' = counter
             /\ \A s \in Subs : hist'[s].resets = hist[s].resets
             /\ pc' = pc

C6_RemoveSubscriber == [][C6_Step]_vars

\* A subscriber removed before has been removed again.
C6_Witness ==
    /\ last.op = "removeSubscriber"
    /\ last.res = "noop"
    /\ hist[last.sub].status = "removed"

\* C7: addSubscriber of a subscriber that has an entry raises an error and
\* leaves the table, the counter, the timer and the subscriber as they were.
C7_Step ==
    (last'.op = "addSubscriber" /\ keysOf(last'.sub) # {}) =>
        /\ last'.res = "error"
        /\ UNCHANGED << watchdogDataMap, counter, timer, nextFire, subscriber >>

C7_AddTwiceFails == [][C7_Step]_vars

\* addSubscriber has been refused for a subscriber that is registered.
C7_Witness ==
    /\ last.op = "addSubscriber"
    /\ last.res = "error"
    /\ keysOf(last.sub) # {}

\* C8: a keepAlive function invoked while its subscriber has no entry raises an
\* error and changes no entry.
C8_Step ==
    (last'.op = "keepAlive" /\ keysOf(last'.sub) = {}) =>
        /\ last'.res = "error"
        /\ UNCHANGED << watchdogDataMap, subscriber, counter, timer >>

C8_KeepAliveAfterRemovalFails == [][C8_Step]_vars

\* The keepAlive function of an evicted subscriber has been invoked.
C8_Witness ==
    /\ last.op = "keepAlive"
    /\ last.res = "error"
    /\ hist[last.sub].status = "evicted"

\* C9: every entry in the table has a positive timeout.
C9_TimeoutPositive ==
    \A k \in DOMAIN watchdogDataMap : watchdogDataMap[k].timeout > 0

\* C10: subscriberCount is the number of subscribers registered and not since
\* removed or evicted, and a subscriber carries keepAlive and its back-reference
\* exactly when the table holds one entry for it, under that entry's own key.
C10_CountIsRegistered ==
    /\ subscriberCount = Cardinality({ s \in Subs : hist[s].status = "active" })
    /\ \A k \in DOMAIN watchdogDataMap : watchdogDataMap[k].key = k
    /\ \A s \in Subs :
          /\ Cardinality(keysOf(s)) <= 1
          /\ subscriber[s].keepAlive <=> keysOf(s) # {}
          /\ subscriber[s].watchDog <=> keysOf(s) # {}
          /\ keysOf(s) = IF subscriber[s].watchDogData = NoKey THEN {}
                         ELSE {subscriber[s].watchDogData}
          /\ hist[s].status = "active" <=> keysOf(s) # {}

\* One subscriber is registered after another one has been evicted.
C10_Witness ==
    /\ subscriberCount = 1
    /\ \E s \in Subs : hist[s].status = "evicted"

\* C11: the keys addSubscriber returns are strictly increasing: a successful
\* registration gets _counter + 1, larger than every key assigned before, no
\* key comes back after its entry has gone, and every entry sits under its own
\* key.
C11_Keys ==
    \A k \in DOMAIN watchdogDataMap : k <= counter /\ watchdogDataMap[k].key = k

C11_Step ==
    /\ counter' >= counter
    /\ \A k \in DOMAIN watchdogDataMap' \ DOMAIN watchdogDataMap :
          k = counter' /\ k > counter /\ watchdogDataMap'[k].key = k
    /\ \A k \in DOMAIN watchdogDataMap' \cap DOMAIN watchdogDataMap :
          /\ watchdogDataMap'[k].key = watchdogDataMap[k].key
          /\ watchdogDataMap'[k].subscriber = watchdogDataMap[k].subscriber
    /\ (last'.op = "addSubscriber" /\ last'.res = "ok") =>
          /\ counter' = counter + 1
          /\ counter' \in DOMAIN watchdogDataMap'
          /\ watchdogDataMap'[counter'].subscriber = last'.sub

C11_KeysIncrease == []C11_Keys /\ [][C11_Step]_vars

\* A registration made after the first entry has gone has got key 2, not 1.
C11_Witness ==
    /\ last.op = "addSubscriber"
    /\ last.res = "ok"
    /\ counter = 2
    /\ DOMAIN watchdogDataMap = {2}

\* C12: shutdown raises an error if and only if the table is not empty or the
\* timer is active, and it changes nothing either way.
C12_Step ==
    last'.op = "shutdown" =>
        /\ last'.res = "error" <=> (subscriberCount > 0 \/ timer)
        /\ UNCHANGED << watchdogDataMap, counter, currentTime, timer, nextFire,
                        subscriber, hist, pc, expiredSubscribers >>

C12_Shutdown == [][C12_Step]_vars

\* shutdown has been refused with a subscriber left and the timer running.
C12_Witness ==
    /\ last.op = "shutdown"
    /\ last.res = "error"
    /\ subscriberCount > 0
    /\ timer

\* C13: a watchdogReset() that raises does not keep the rest of the batch from
\* being evicted: a pass that is inside a watchdogReset() ends only when the
\* last entry of the batch has had its turn.
C13_Step == (pc = "reset" /\ pc' = "idle") => idx = Len(expiredSubscribers)

C13_RestOfBatchEvicted == [][C13_Step]_vars

\* watchdogReset() of the batch entry at idx has just been entered.
ResetEntered == pc = "reset" /\ last.op = "evict"

\* C14: when watchdogReset() is entered, the key of the batch entry is out of
\* the table and the subscriber carries no keepAlive, so that addSubscriber of
\* the same subscriber is accepted; it gets a fresh key and starts the timer
\* again when the table was empty.
C14_Removed ==
    ResetEntered =>
        LET e == expiredSubscribers[idx]
        IN  /\ e.key \notin DOMAIN watchdogDataMap
            /\ keysOf(e.subscriber) = {}
            /\ subscriber[e.subscriber] = Unbound
            /\ \A t \in Timeouts :
                  orDefault(t).kind = "number" => addOutcome(e.subscriber, t) = "ok"

C14_Step ==
    ( /\ ResetEntered
      /\ last'.op = "addSubscriber"
      /\ last'.sub = expiredSubscribers[idx].subscriber
      /\ last'.res = "ok" ) =>
        /\ counter' = counter + 1
        /\ DOMAIN watchdogDataMap' = DOMAIN watchdogDataMap \cup {counter'}
        /\ counter' \notin DOMAIN watchdogDataMap
        /\ counter' # expiredSubscribers[idx].key
        /\ watchdogDataMap'[counter'].subscriber = last'.sub
        /\ subscriber'[last'.sub].keepAlive
        /\ timer'
        /\ subscriberCount = 0 => (~timer /\ nextFire' = clock + SweepPeriod)

C14_RemovedBeforeReset == []C14_Removed /\ [][C14_Step]_vars

\* The watchdogReset() of the only subscriber has registered it again: the
\* table has one entry and the timer runs.
C14_Witness ==
    /\ pc = "reset"
    /\ calls = 1
    /\ last.op = "addSubscriber"
    /\ last.res = "ok"
    /\ last.sub = expiredSubscribers[idx].subscriber
    /\ hist[last.sub].resets = 0
    /\ subscriberCount = 1
    /\ timer

\* C15: a pass emits at most one "timeout": exactly one, carrying every entry
\* classified expired, when there is one, and none otherwise; it is emitted
\* before any watchdogReset() of the pass, and every watchdogReset() of the
\* pass is for a subscriber of the batch.
C15_OneEvent ==
    /\ Len(timeoutEvents) <= 1
    /\ pc # "idle" => (timeoutEvents = << expiredSubscribers >> /\ expiredSubscribers # << >>)
    /\ pc = "idle" => timeoutEvents = << >>

C15_Step ==
    /\ last'.op = "visit" =>
          /\ Len(timeoutEvents') = IF expiredKeys(clock) = {} THEN 0 ELSE 1
          /\ expiredKeys(clock) # {} =>
                /\ Len(timeoutEvents'[1]) = Cardinality(expiredKeys(clock))
                /\ { timeoutEvents'[1][i].key : i \in DOMAIN timeoutEvents'[1] }
                      = expiredKeys(clock)
                /\ \A i \in DOMAIN timeoutEvents'[1] :
                      timeoutEvents'[1][i].subscriber
                         = watchdogDataMap[timeoutEvents'[1][i].key].subscriber
    /\ (pc # "idle" /\ pc' # "idle") => timeoutEvents' = timeoutEvents
    /\ last'.op = "evict" =>
          /\ Len(timeoutEvents) = 1
          /\ \E i \in DOMAIN timeoutEvents[1] : timeoutEvents[1][i].subscriber = last'.sub
          /\ hist'[last'.sub].resets = hist[last'.sub].resets + 1
    /\ \A s \in Subs :
          hist'[s].resets > hist[s].resets => (last'.op = "evict" /\ last'.sub = s)

C15_OneTimeoutPerPass == []C15_OneEvent /\ [][C15_Step]_vars

\* The second subscriber of a batch of two is in its watchdogReset(), one
\* "timeout" carrying both was emitted.
C15_Witness ==
    /\ ResetEntered
    /\ idx = 2
    /\ Len(timeoutEvents) = 1
    /\ Len(timeoutEvents[1]) = 2

\* C16: a pass captures the tick once and classifies every entry against it,
\* so that entries with equal lastSeen and equal timeout are classified alike;
\* it adds one to visitCount of every entry, expired or not, and leaves key,
\* timeout and lastSeen of the entries as they were.
C16_Step ==
    /\ last'.op = "visit" =>
          /\ currentTime' = clock
          /\ DOMAIN watchdogDataMap' = DOMAIN watchdogDataMap
          /\ \A k \in DOMAIN watchdogDataMap :
                /\ watchdogDataMap'[k].visitCount = watchdogDataMap[k].visitCount + 1
                /\ watchdogDataMap'[k].key = watchdogDataMap[k].key
                /\ watchdogDataMap'[k].timeout = watchdogDataMap[k].timeout
                /\ watchdogDataMap'[k].lastSeen = watchdogDataMap[k].lastSeen
                /\ watchdogDataMap'[k].subscriber = watchdogDataMap[k].subscriber
                /\ (\E i \in DOMAIN expiredSubscribers' : expiredSubscribers'[i].key = k)
                      <=> watchdogDataMap[k].lastSeen + watchdogDataMap[k].timeout
                             < currentTime'
          /\ \A k1, k2 \in DOMAIN watchdogDataMap :
                ( /\ watchdogDataMap[k1].lastSeen = watchdogDataMap[k2].lastSeen
                  /\ watchdogDataMap[k1].timeout = watchdogDataMap[k2].timeout ) =>
                    ( (\E i \in DOMAIN expiredSubscribers' : expiredSubscribers'[i].key = k1)
                      <=> (\E i \in DOMAIN expiredSubscribers' :
                              expiredSubscribers'[i].key = k2) )
    /\ \A k \in DOMAIN watchdogDataMap \cap DOMAIN watchdogDataMap' :
          watchdogDataMap'[k].visitCount # watchdogDataMap[k].visitCount
             => last'.op = "visit"

C16_PassVisitsEveryEntry == [][C16_Step]_vars

\* A pass has just classified one entry expired and one not; both were
\* visited for the first time.
C16_Witness ==
    /\ Delivered
    /\ Cardinality(DOMAIN watchdogDataMap) = 2
    /\ Len(expiredSubscribers) = 1
    /\ \A k \in DOMAIN watchdogDataMap : watchdogDataMap[k].visitCount = 1

\* C17: with a clock that does not go back, lastSeen of an entry never
\* decreases while the entry exists: addSubscriber sets it to the current tick,
\* keepAlive replaces it with the current tick in the entry of the calling
\* subscriber only (the other entries, the key counter and the timer stay),
\* and no other operation changes it.
C17_Step ==
    /\ \A k \in DOMAIN watchdogDataMap \cap DOMAIN watchdogDataMap' :
          /\ watchdogDataMap'[k].lastSeen >= watchdogDataMap[k].lastSeen
          /\ watchdogDataMap'[k].lastSeen # watchdogDataMap[k].lastSeen =>
                /\ last'.op = "keepAlive"
                /\ last'.res = "ok"
                /\ watchdogDataMap[k].subscriber = last'.sub
    /\ \A k \in DOMAIN watchdogDataMap' \ DOMAIN watchdogDataMap :
          /\ last'.op = "addSubscriber"
          /\ watchdogDataMap'[k].lastSeen = clock
    /\ last'.op = "keepAlive" =>
          /\ DOMAIN watchdogDataMap' = DOMAIN watchdogDataMap
          /\ UNCHANGED << counter, timer, nextFire, subscriber, clock >>
          /\ \A k \in DOMAIN watchdogDataMap :
                IF watchdogDataMap[k].subscriber = last'.sub /\ last'.res = "ok"
                THEN watchdogDataMap'[k] =
                        [ watchdogDataMap[k] EXCEPT !.lastSeen = clock ]
                ELSE watchdogDataMap'[k] = watchdogDataMap[k]
          /\ last'.res = "ok" => keysOf(last'.sub) # {}

C17_LastSeen ==
    [](\A k \in DOMAIN watchdogDataMap : watchdogDataMap[k].lastSeen <= clock)
       /\ [][C17_Step]_vars

\* keepAlive has stamped the caller's entry with the current tick while the
\* entry of the other subscriber keeps its older stamp.
C17_Witness ==
    /\ last.op = "keepAlive"
    /\ last.res = "ok"
    /\ \E k1, k2 \in DOMAIN watchdogDataMap :
          /\ watchdogDataMap[k1].subscriber = last.sub
          /\ watchdogDataMap[k1].lastSeen = clock
          /\ watchdogDataMap[k2].subscriber # last.sub
          /\ watchdogDataMap[k2].lastSeen < clock
    /\ clock > 0

\* C18: a pass removes from the table only entries whose key it classified
\* expired; an entry that a listener or an earlier watchdogReset() of the pass
\* registered anew for an expired subscriber is still there when the pass is
\* over.
C18_Step ==
    last'.op = "evict" =>
        (DOMAIN watchdogDataMap \ DOMAIN watchdogDataMap') \subseteq batchKeys

C18_OnlyClassifiedKeysRemoved == [][C18_Step]_vars

\* C19: a pass invokes watchdogReset() on a subscriber only when its own
\* removeSubscriber took the entry of that subscriber out of the table.
C19_ResetOnlyAfterOwnEviction ==
    ResetEntered => last.res = "removed"

\* C20: once nobody registers or signals any more and no callback registers or
\* throws, the advancing clock and the firing timer lead to an empty table with
\* no timer, for good, where shutdown succeeds.
C20_Quiescent == subscriberCount = 0 /\ ~timer /\ shutdownOutcome = "ok"

C20_Quiescence == quiet ~> []C20_Quiescent

\* Every entry of the table has a finite timeout.
C20_FiniteTimeouts ==
    \A k \in DOMAIN watchdogDataMap : watchdogDataMap[k].timeout < Infinity

\* C20, amended: the same, from the states in which every entry has a finite
\* timeout.
C20_FiniteQuiescence == (quiet /\ C20_FiniteTimeouts) ~> []C20_Quiescent

\* After the callers went quiet a pass evicted a subscriber, the table ran
\* empty and shutdown returned.
C20_Witness ==
    /\ quiet
    /\ C20_Quiescent
    /\ last.op = "shutdown"
    /\ last.res = "ok"
    /\ clock > MaxClock
    /\ \E s \in Subs : hist[s].status = "evicted"

====
